---- MODULE Spec2Model ----
(***************************************************************************)
(* The consultant-booking backend: the Express handlers of                  *)
(* bookingController, clientController, sessionController,                  *)
(* reviewController, paymentController, serviceController and               *)
(* consultantController, the upload routes, the Google identity resolvers   *)
(* and the cached services router, acting on the Mongoose collections       *)
(* Client, Consultant, Booking, Session, Review, Payment, User and Service  *)
(* and on the Redis cache.                                                  *)
(*                                                                          *)
(* Identifiers are pairs <<collection, n>>: an ObjectId is unique across    *)
(* collections, so the _id of a Client or Consultant profile never equals   *)
(* the _id of the User that owns it.                                        *)
(*                                                                          *)
(* The initial state is the fixture of tests/bookingController.test.js and  *)
(* tests/setup.js (beforeEach): the users of testUtils.createTestUsers, one *)
(* Consultant profile, one Service and one pending Booking whose clientId   *)
(* is the client's User _id (Booking.clientId is declared ref: 'User').     *)
(*                                                                          *)
(* A handler whose claims do not depend on interleaving is one atomic       *)
(* action.  The upload routes, the identity resolvers and the cached        *)
(* router are split at their awaits, one action per part, with the          *)
(* requests between two parts held in uploads, logins, gets and clears.     *)
(* The variable last records the request that was answered last and the     *)
(* HTTP status it was answered with.                                        *)
(***************************************************************************)
EXTENDS Integers, Sequences, FiniteSets, TLC

VARIABLES clients, consultants, bookings, sessions, reviews, last,
          payments, uploads, users, logins, services, slots,
          cache, gets, clears, admins, offers, reviewing,
          pendingRequests, staticCache, fetches, awaiting, delivered,
          globalInitPromise, isInitialized, mounted, initStarts, initRunning, mounts

\* The Payment collection and the document uploads that have loaded their
\* booking and not saved it yet
paymentVars == <<payments, uploads>>

\* The User collection and the identity resolutions in flight
accountVars == <<users, logins>>

\* The Service collection and the time slots the consultant has published
catalogueVars == <<services, slots>>

\* The Redis cache of the services router, its GET requests between their
\* awaits, and its writes between the database write and the response
cacheVars == <<cache, gets, clears>>

\* The Admin collection
adminVars == <<admins>>

\* The services the Consultant documents embed
listingVars == <<offers>>

\* The review requests between their awaits
raceVars == <<reviewing>>

\* The two maps of the frontend's fetcher, the requests it has sent, the
\* callers that hold the promise of a request and what each caller
\* received last
fetchVars == <<pendingRequests, staticCache, fetches, awaiting, delivered>>

\* AppProvider: the module-level promise, the ref isInitialized, whether
\* the provider is mounted, and the counts of the started and of the
\* running initialisation bodies and of the mounts
appVars == <<globalInitPromise, isInitialized, mounted, initStarts, initRunning, mounts>>

frontendVars == <<fetchVars, appVars>>

\* The state behind the admin router and the listing of the services, the
\* requests in flight of the handlers that are modelled step by step, and
\* the frontend
furtherVars == <<adminVars, listingVars, raceVars, frontendVars>>

others == <<paymentVars, accountVars, catalogueVars, cacheVars, furtherVars>>

vars == <<clients, consultants, bookings, sessions, reviews, last, others>>

\* The state of the backend
backendVars ==
    <<clients, consultants, bookings, sessions, reviews, last,
      paymentVars, accountVars, catalogueVars, cacheVars,
      adminVars, listingVars, raceVars>>

----------------------------------------------------------------------------
\* Bounds of the model

MaxBookings == 2
MaxSessions == 1
MaxReviews == 2
MaxPayments == 1
MaxUploads == 2
MaxDocuments == 2
MaxLogins == 2
MaxServices == 2
MaxGets == 1
MaxClears == 1
MaxAdmins == 1
MaxLogs == 1
MaxReviewing == 2
MaxFetches == 3
MaxMounts == 2

----------------------------------------------------------------------------
\* Users, profiles and catalogue (tests/testUtils.js, beforeEach of the tests)

ClientUser == <<"User", 1>>
OtherUser == <<"User", 2>>
ConsultantUser == <<"User", 3>>
AdminUser == <<"User", 4>>
\* A second consultant, stranger to the services of the first
OtherConsultantUser == <<"User", 5>>

Users == {ClientUser, OtherUser, ConsultantUser, AdminUser}

\* req.user.role: the role of the stored user the middleware loaded
Role(u) ==
    IF u[1] = "User" /\ u[2] \in 1..Len(users) THEN users[u[2]].role
    ELSE "client"

\* The user that sends booking requests
BookingUsers == {ClientUser}

Consultant1 == <<"Consultant", 1>>
Service1 == <<"Service", 1>>

\* Well-formed ObjectIds that reference no stored document
NoConsultant == <<"Consultant", 9>>
NoService == <<"Service", 9>>

\* A field the request body does not carry (undefined)
Absent == "undefined"
NoId == <<Absent, 0>>

ClientId(n) == <<"Client", n>>

----------------------------------------------------------------------------
\* Schemas

BookingStatusEnum == {"pending", "confirmed", "cancelled", "completed"}
PaymentStatusEnum == {"pending", "paid", "refunded"}

\* Paths declared by consultantSchema; strict mode (the Mongoose default)
\* drops every other path of a document or of an update
ConsultantSchemaPaths == {"userId", "services"}

\* Paths declared by clientSchema: there is no path named bookings
ClientSchemaPaths == {"userId", "preferences", "bookingHistory", "savedConsultants"}

\* package.json depends on mongoose ^8.7.2: Document.prototype.remove was
\* removed in Mongoose 7, so doc.remove() throws a TypeError
DocumentRemoveSupported == FALSE

\* Value of a path that was never stored
NoRating == [num |-> 0, den |-> 0]

----------------------------------------------------------------------------
\* Dates and times

Date1 == "2024-06-01"

\* body.date stored as it was received
RawDate(d) == <<"String", d>>

\* new Date(body.date) stored in a String path: the Date's string form
NewDate(d) == <<"Date", d>>

\* The calendar day a stored date denotes, whichever form it was stored in
CalendarDay(stored) == stored[2]

\* /^\d{4}-\d{2}-\d{2}$/
DateRegex(d) == d \in {Date1}

\* A number of a JSON body is <<integer part, tenths>>; parseInt converts it
\* to a string and reads the digits before the point
parseInt(n) == n[1]

\* /^([01]?[0-9]|2[0-3]):[0-5][0-9]$/ on a time <<hour, minute>>
TimeRegex(t) == t[1] \in 0..23 /\ t[2] \in 0..59

----------------------------------------------------------------------------
\* Collection queries

\* Client.findOne({ userId }): the first profile of the user, 0 when none
ClientFindOne(u) ==
    IF \E n \in 1..Len(clients) : clients[n] = u
    THEN CHOOSE n \in 1..Len(clients) :
            clients[n] = u /\ \A k \in 1..Len(clients) : clients[k] = u => n <= k
    ELSE 0

\* Booking.findById, Session.findById, Review.findById: a stored document
BookingExists(b) == b \in 1..Len(bookings) /\ ~ bookings[b].removed
SessionExists(s) == s \in 1..Len(sessions)
ReviewExists(r) == r \in 1..Len(reviews) /\ ~ reviews[r].removed

StoredBookings == {b \in 1..Len(bookings) : BookingExists(b)}
StoredReviews == {r \in 1..Len(reviews) : ReviewExists(r)}

\* Consultant.findById
ConsultantExists(id) == id \in DOMAIN consultants

\* Service.findById
ServiceExists(id) ==
    /\ id[1] = "Service"
    /\ id[2] \in 1..Len(services)
    /\ ~ services[id[2]].removed

\* User.findById, used by populate of a path with ref: 'User'
UserExists(id) ==
    /\ id[1] = "User"
    /\ id[2] \in 1..Len(users)
    /\ ~ users[id[2]].removed

Response(op, u, id, code, arg) ==
    [op |-> op, user |-> u, id |-> id, code |-> code, arg |-> arg]

----------------------------------------------------------------------------
\* Frontend: the keys and the callers of the fetcher (services/cache.js)

\* The cache keys of the two useCachedData hooks of AppProvider
URLs == {"/consultants", "/services"}

\* Overlapping callers of fetcher
Callers == {"a", "b"}

\* What a caller holds before its first call has been answered
NoDelivery == [url |-> "none", id |-> 0, outcome |-> "none"]

----------------------------------------------------------------------------
\* Initial state

FixtureBooking ==
    [clientId |-> ClientUser, consultantId |-> Consultant1, serviceId |-> Service1,
     date |-> RawDate(Date1), time |-> <<10, 0>>, duration |-> <<60, 0>>,
     status |-> "pending", paymentStatus |-> "pending", documents |-> <<>>,
     removed |-> FALSE]

\* createTestUsers, and the other client of the tests under an email of
\* its own (email is unique); the fixtures carry no googleId
FixtureUsers ==
    <<[email |-> "testclient@example.com", googleId |-> Absent,
       role |-> "client", removed |-> FALSE],
      [email |-> "other@example.com", googleId |-> Absent,
       role |-> "client", removed |-> FALSE],
      [email |-> "testconsultant@example.com", googleId |-> Absent,
       role |-> "consultant", removed |-> FALSE],
      [email |-> "testadmin@example.com", googleId |-> Absent,
       role |-> "admin", removed |-> FALSE],
      [email |-> "otherconsultant@example.com", googleId |-> Absent,
       role |-> "consultant", removed |-> FALSE]>>

\* The Service of the service tests: its consultantId is the _id of the
\* Consultant profile
FixtureService ==
    [consultantId |-> Consultant1, name |-> "Test Service", price |-> 100,
     description |-> "Test service description", duration |-> 60,
     removed |-> FALSE]

Init ==
    /\ clients = <<>>
    /\ consultants = [c \in {Consultant1} |->
                        [userId |-> ConsultantUser,
                         averageRating |-> NoRating, totalReviews |-> 0]]
    /\ bookings = <<FixtureBooking>>
    /\ sessions = <<>>
    /\ reviews = <<>>
    /\ last = Response("init", ClientUser, 0, 0, Absent)
    /\ payments = <<>>
    /\ uploads = {}
    /\ users = FixtureUsers
    /\ logins = {}
    /\ services = <<FixtureService>>
    /\ slots = {}
    /\ cache = {}
    /\ gets = {}
    /\ clears = {}
    /\ admins = <<>>
    /\ offers = [c \in {Consultant1} |-> <<>>]
    /\ reviewing = {}
    /\ pendingRequests = [url \in URLs |-> 0]
    /\ staticCache = {}
    /\ fetches = <<>>
    /\ awaiting = {}
    /\ delivered = [c \in Callers |-> NoDelivery]
    /\ globalInitPromise = FALSE
    /\ isInitialized = FALSE
    /\ mounted = FALSE
    /\ initStarts = 0
    /\ initRunning = 0
    /\ mounts = 0

----------------------------------------------------------------------------
\* POST /api/bookings/book: validateBooking, then createBooking

\* A body that passes every check
ValidBody ==
    [clientId |-> ClientUser, consultantId |-> Consultant1, serviceId |-> Service1,
     date |-> Date1, time |-> <<10, 0>>, duration |-> <<60, 0>>,
     status |-> Absent, paymentStatus |-> Absent]

\* The valid body, and the bodies that differ from it in one field
BookingBodies ==
    {ValidBody}
    \cup {[ValidBody EXCEPT !.clientId = NoId]}
    \cup {[ValidBody EXCEPT !.consultantId = NoConsultant]}
    \cup {[ValidBody EXCEPT !.serviceId = NoService]}
    \cup {[ValidBody EXCEPT !.time = t] : t \in {<<14, 0>>, <<25, 0>>}}
    \cup {[ValidBody EXCEPT !.duration = d] : d \in {<<481, 0>>, <<480, 5>>}}
    \cup {[ValidBody EXCEPT !.status = st] : st \in {"confirmed", "archived"}}
    \cup {[ValidBody EXCEPT !.paymentStatus = "paid"]}

\* 0 stands for next()
validateBooking(body) ==
    IF body.clientId = NoId THEN 400
    ELSE IF ~ DateRegex(body.date) THEN 400
    ELSE IF ~ TimeRegex(body.time) THEN 400
    ELSE IF parseInt(body.duration) <= 0 \/ parseInt(body.duration) > 480 THEN 400
    ELSE 0

\* Get or create client profile: the profile and the collection afterwards
ClientsAfterGetOrCreate(u) ==
    IF ClientFindOne(u) = 0 THEN Append(clients, u) ELSE clients

ClientAfterGetOrCreate(u) ==
    IF ClientFindOne(u) = 0 THEN Len(clients) + 1 ELSE ClientFindOne(u)

BookingStatusOfBody(body) == IF body.status = Absent THEN "pending" ELSE body.status

PaymentStatusOfBody(body) ==
    IF body.paymentStatus = Absent THEN "pending" ELSE body.paymentStatus

createBooking(u, body) ==
    IF validateBooking(body) # 0
    THEN /\ last' = Response("createBooking", u, 0, 400, Absent)
         /\ UNCHANGED <<clients, bookings>>
    ELSE
      /\ clients' = ClientsAfterGetOrCreate(u)
      /\ IF ~ ConsultantExists(body.consultantId)
         THEN /\ last' = Response("createBooking", u, 0, 404, Absent)
              /\ UNCHANGED bookings
         ELSE IF \/ BookingStatusOfBody(body) \notin BookingStatusEnum
                 \/ PaymentStatusOfBody(body) \notin PaymentStatusEnum
         THEN \* newBooking.save() rejects with a ValidationError
              /\ last' = Response("createBooking", u, 0, 500, Absent)
              /\ UNCHANGED bookings
         ELSE /\ bookings' = Append(bookings,
                    [clientId |-> ClientId(ClientAfterGetOrCreate(u)),
                     consultantId |-> body.consultantId,
                     serviceId |-> body.serviceId,
                     date |-> NewDate(body.date),
                     time |-> body.time,
                     duration |-> body.duration,
                     status |-> BookingStatusOfBody(body),
                     paymentStatus |-> PaymentStatusOfBody(body),
                     documents |-> <<>>,
                     removed |-> FALSE])
              /\ last' = Response("createBooking", u, Len(bookings) + 1, 201, Absent)

CreateBooking ==
    /\ Len(bookings) < MaxBookings
    /\ \E u \in BookingUsers, body \in BookingBodies : createBooking(u, body)
    /\ UNCHANGED <<consultants, sessions, reviews>>
    /\ UNCHANGED others

----------------------------------------------------------------------------
\* POST /api/clients/book: validateBooking, then bookConsultantService

ServiceBodies ==
    {body \in BookingBodies : body.status = Absent /\ body.paymentStatus = Absent}

bookConsultantService(u, body) ==
    IF validateBooking(body) # 0
    THEN /\ last' = Response("bookConsultantService", u, 0, 400, Absent)
         /\ UNCHANGED bookings
    ELSE IF ~ ConsultantExists(body.consultantId)
    THEN /\ last' = Response("bookConsultantService", u, 0, 404, Absent)
         /\ UNCHANGED bookings
    ELSE IF ~ ServiceExists(body.serviceId)
    THEN /\ last' = Response("bookConsultantService", u, 0, 404, Absent)
         /\ UNCHANGED bookings
    ELSE IF ClientFindOne(u) = 0
    THEN /\ last' = Response("bookConsultantService", u, 0, 404, Absent)
         /\ UNCHANGED bookings
    ELSE /\ bookings' = Append(bookings,
                [clientId |-> ClientId(ClientFindOne(u)),
                 consultantId |-> body.consultantId,
                 serviceId |-> body.serviceId,
                 date |-> RawDate(body.date),
                 time |-> body.time,
                 duration |-> body.duration,
                 status |-> "pending",
                 paymentStatus |-> "pending",
                 documents |-> <<>>,
                 removed |-> FALSE])
         \* client.bookings.push(...): clientSchema has no path bookings, so
         \* client.bookings is undefined and the call throws after the save
         /\ last' = Response("bookConsultantService", u, Len(bookings) + 1,
                             IF "bookings" \in ClientSchemaPaths THEN 201 ELSE 500,
                             Absent)

BookConsultantService ==
    /\ Len(bookings) < MaxBookings
    /\ \E u \in BookingUsers, body \in ServiceBodies : bookConsultantService(u, body)
    /\ UNCHANGED <<clients, consultants, sessions, reviews>>
    /\ UNCHANGED others

----------------------------------------------------------------------------
\* updateBooking (PUT /bookings/:id) and deleteBooking

UpdateBodies ==
    [status : {"archived"} \cup BookingStatusEnum, paymentStatus : {Absent}]
    \cup [status : {Absent}, paymentStatus : {"paid"}]

\* booking.clientId.toString() !== req.user._id.toString()
UpdateAuthorized(booking, u) == booking.clientId = u

\* booking.status = status || booking.status
StatusAfterUpdate(booking, body) ==
    IF body.status = Absent THEN booking.status ELSE body.status

PaymentStatusAfterUpdate(booking, body) ==
    IF body.paymentStatus = Absent THEN booking.paymentStatus ELSE body.paymentStatus

updateBooking(u, b, body) ==
    IF ~ BookingExists(b)
    THEN /\ last' = Response("updateBooking", u, b, 404, body.status)
         /\ UNCHANGED bookings
    ELSE IF ~ UpdateAuthorized(bookings[b], u)
    THEN /\ last' = Response("updateBooking", u, b, 403, body.status)
         /\ UNCHANGED bookings
    ELSE IF \/ StatusAfterUpdate(bookings[b], body) \notin BookingStatusEnum
            \/ PaymentStatusAfterUpdate(bookings[b], body) \notin PaymentStatusEnum
    THEN \* booking.save() rejects with a ValidationError
         /\ last' = Response("updateBooking", u, b, 500, body.status)
         /\ UNCHANGED bookings
    ELSE /\ bookings' = [bookings EXCEPT
                ![b].status = StatusAfterUpdate(bookings[b], body),
                ![b].paymentStatus = PaymentStatusAfterUpdate(bookings[b], body)]
         /\ last' = Response("updateBooking", u, b, 200, body.status)

UpdateBooking ==
    /\ \E u \in Users, b \in 1..(Len(bookings) + 1), body \in UpdateBodies :
          updateBooking(u, b, body)
    /\ UNCHANGED <<clients, consultants, sessions, reviews>>
    /\ UNCHANGED others

deleteBooking(u, b) ==
    IF ~ BookingExists(b)
    THEN /\ last' = Response("deleteBooking", u, b, 404, Absent)
         /\ UNCHANGED bookings
    ELSE IF ~ UpdateAuthorized(bookings[b], u)
    THEN /\ last' = Response("deleteBooking", u, b, 403, Absent)
         /\ UNCHANGED bookings
    ELSE IF ~ DocumentRemoveSupported
    THEN \* booking.remove is not a function
         /\ last' = Response("deleteBooking", u, b, 500, Absent)
         /\ UNCHANGED bookings
    ELSE /\ bookings' = [bookings EXCEPT ![b].removed = TRUE]
         /\ last' = Response("deleteBooking", u, b, 200, Absent)

DeleteBooking ==
    /\ \E u \in Users, b \in 1..(Len(bookings) + 1) : deleteBooking(u, b)
    /\ UNCHANGED <<clients, consultants, sessions, reviews>>
    /\ UNCHANGED others

----------------------------------------------------------------------------
\* PUT /api/clients/cancel/:bookingId: clientController.cancelBooking

cancelBooking(u, b) ==
    /\ last' = Response("cancelBooking", u, b,
            IF ClientFindOne(u) = 0 THEN 404
            \* client.bookings.id(...): client.bookings is undefined
            ELSE IF "bookings" \notin ClientSchemaPaths THEN 500
            \* no handler stores anything under the path
            ELSE 404,
            Absent)
    /\ UNCHANGED bookings

CancelBooking ==
    /\ \E u \in Users, b \in 1..(Len(bookings) + 1) : cancelBooking(u, b)
    /\ UNCHANGED <<clients, consultants, sessions, reviews>>
    /\ UNCHANGED others

----------------------------------------------------------------------------
\* sessionController: createSession and endSession

\* The outcome of the call to the video collaborator
TwilioOutcomes == {"ok", "error"}

createSession(u, b, twilio) ==
    IF ~ BookingExists(b)
    THEN /\ last' = Response("createSession", u, b, 404, Absent)
         /\ UNCHANGED sessions
    ELSE IF bookings[b].status # "confirmed"
    THEN /\ last' = Response("createSession", u, b, 400, Absent)
         /\ UNCHANGED sessions
    ELSE IF twilio # "ok"
    THEN /\ last' = Response("createSession", u, b, 500, Absent)
         /\ UNCHANGED sessions
    ELSE IF \/ ~ ConsultantExists(bookings[b].consultantId)
            \/ ~ UserExists(bookings[b].clientId)
    THEN \* populate left null in the path: reading ._id of it throws
         /\ last' = Response("createSession", u, b, 500, Absent)
         /\ UNCHANGED sessions
    ELSE /\ sessions' = Append(sessions,
                [bookingId |-> b,
                 consultantId |-> bookings[b].consultantId,
                 clientId |-> bookings[b].clientId,
                 status |-> "scheduled"])
         /\ last' = Response("createSession", u, Len(sessions) + 1, 201, Absent)

CreateSession ==
    /\ Len(sessions) < MaxSessions
    /\ \E u \in Users, b \in 1..(Len(bookings) + 1), twilio \in TwilioOutcomes :
          createSession(u, b, twilio)
    /\ UNCHANGED <<clients, consultants, bookings, reviews>>
    /\ UNCHANGED others

\* session.consultantId.toString() !== req.user._id.toString()
EndAuthorized(session, u) == session.consultantId = u

\* Booking.findByIdAndUpdate(id, { status: 'completed' })
BookingsAfterComplete(b) ==
    IF BookingExists(b) THEN [bookings EXCEPT ![b].status = "completed"] ELSE bookings

endSession(u, s, twilio) ==
    IF ~ SessionExists(s)
    THEN /\ last' = Response("endSession", u, s, 404, Absent)
         /\ UNCHANGED <<sessions, bookings>>
    ELSE IF ~ EndAuthorized(sessions[s], u)
    THEN /\ last' = Response("endSession", u, s, 403, Absent)
         /\ UNCHANGED <<sessions, bookings>>
    ELSE IF twilio # "ok"
    THEN /\ last' = Response("endSession", u, s, 500, Absent)
         /\ UNCHANGED <<sessions, bookings>>
    ELSE /\ sessions' = [sessions EXCEPT ![s].status = "completed"]
         /\ bookings' = BookingsAfterComplete(sessions[s].bookingId)
         /\ last' = Response("endSession", u, s, 200, Absent)

EndSession ==
    /\ \E u \in Users, s \in 1..(Len(sessions) + 1), twilio \in TwilioOutcomes :
          endSession(u, s, twilio)
    /\ UNCHANGED <<clients, consultants, reviews>>
    /\ UNCHANGED others

----------------------------------------------------------------------------
\* reviewController: createReview, updateReview, deleteReview

Ratings == {3, 5}

\* Review.find({ consultantId }) on a Review collection
ReviewsOf(revs, cid) ==
    {r \in 1..Len(revs) : ~ revs[r].removed /\ revs[r].consultantId = cid}

\* reviews.reduce((sum, review) => sum + review.rating, 0)
RECURSIVE TotalRating(_, _)
TotalRating(revs, rs) ==
    IF rs = {} THEN 0
    ELSE LET r == CHOOSE x \in rs : TRUE
         IN revs[r].rating + TotalRating(revs, rs \ {r})

\* The update document updateConsultantRating builds; the quotient
\* totalRating / reviews.length is kept as numerator and denominator
RatingUpdate(revs, cid) ==
    IF Cardinality(ReviewsOf(revs, cid)) > 0
    THEN [averageRating |-> [num |-> TotalRating(revs, ReviewsOf(revs, cid)),
                             den |-> Cardinality(ReviewsOf(revs, cid))],
          totalReviews |-> Cardinality(ReviewsOf(revs, cid))]
    ELSE [averageRating |-> [num |-> 0, den |-> 1], totalReviews |-> 0]

\* Consultant.findByIdAndUpdate(id, update): strict mode keeps only the
\* paths of the update that consultantSchema declares
ConsultantFindByIdAndUpdate(id, update) ==
    IF ~ ConsultantExists(id) THEN consultants
    ELSE [consultants EXCEPT ![id] =
            [p \in DOMAIN consultants[id] |->
                IF p \in DOMAIN update /\ p \in ConsultantSchemaPaths
                THEN update[p] ELSE consultants[id][p]]]

updateConsultantRating(revs, cid) ==
    consultants' = ConsultantFindByIdAndUpdate(cid, RatingUpdate(revs, cid))

\* A createReview that accepts a booking in any status
ReviewableWhatever(booking) == booking.status \in BookingStatusEnum

\* booking.status !== 'completed'
Reviewable(booking) == booking.status = "completed"

\* A createReview that never finds an earlier review
ExistingReviewMissed(b) == \E r \in StoredReviews : reviews[r].bookingId = b /\ FALSE

\* Review.findOne({ bookingId })
ExistingReview(b) == \E r \in StoredReviews : reviews[r].bookingId = b

createReview(u, b, rating) ==
    IF ~ BookingExists(b)
    THEN /\ last' = Response("createReview", u, b, 404, Absent)
         /\ UNCHANGED <<reviews, consultants>>
    ELSE IF ~ Reviewable(bookings[b])
    THEN /\ last' = Response("createReview", u, b, 400, "not completed")
         /\ UNCHANGED <<reviews, consultants>>
    ELSE IF ExistingReview(b)
    THEN /\ last' = Response("createReview", u, b, 400, "already reviewed")
         /\ UNCHANGED <<reviews, consultants>>
    ELSE /\ reviews' = Append(reviews,
                [bookingId |-> b,
                 consultantId |-> bookings[b].consultantId,
                 clientId |-> u,
                 rating |-> rating,
                 removed |-> FALSE])
         /\ updateConsultantRating(reviews', bookings[b].consultantId)
         /\ last' = Response("createReview", u, b, 201, Absent)

CreateReview ==
    /\ Len(reviews) < MaxReviews
    /\ \E u \in Users, b \in 1..(Len(bookings) + 1), rating \in Ratings :
          createReview(u, b, rating)
    /\ UNCHANGED <<clients, bookings, sessions>>
    /\ UNCHANGED others

\* if (rating) review.rating = rating; 0 stands for a body without rating
updateReview(u, r, rating) ==
    IF ~ ReviewExists(r)
    THEN /\ last' = Response("updateReview", u, r, 404, Absent)
         /\ UNCHANGED <<reviews, consultants>>
    ELSE IF reviews[r].clientId # u
    THEN /\ last' = Response("updateReview", u, r, 403, Absent)
         /\ UNCHANGED <<reviews, consultants>>
    ELSE /\ reviews' = [reviews EXCEPT
                ![r].rating = IF rating # 0 THEN rating ELSE @]
         /\ updateConsultantRating(reviews', reviews[r].consultantId)
         /\ last' = Response("updateReview", u, r, 200, Absent)

UpdateReview ==
    /\ \E u \in Users, r \in 1..(Len(reviews) + 1), rating \in Ratings \cup {0} :
          updateReview(u, r, rating)
    /\ UNCHANGED <<clients, bookings, sessions>>
    /\ UNCHANGED others

deleteReview(u, r) ==
    IF ~ ReviewExists(r)
    THEN /\ last' = Response("deleteReview", u, r, 404, Absent)
         /\ UNCHANGED <<reviews, consultants>>
    ELSE IF reviews[r].clientId # u /\ Role(u) # "admin"
    THEN /\ last' = Response("deleteReview", u, r, 403, Absent)
         /\ UNCHANGED <<reviews, consultants>>
    ELSE IF ~ DocumentRemoveSupported
    THEN \* review.remove is not a function
         /\ last' = Response("deleteReview", u, r, 500, Absent)
         /\ UNCHANGED <<reviews, consultants>>
    ELSE /\ reviews' = [reviews EXCEPT ![r].removed = TRUE]
         /\ updateConsultantRating(reviews', reviews[r].consultantId)
         /\ last' = Response("deleteReview", u, r, 200, Absent)

DeleteReview ==
    /\ \E u \in Users, r \in 1..(Len(reviews) + 1) : deleteReview(u, r)
    /\ UNCHANGED <<clients, bookings, sessions>>
    /\ UNCHANGED others

----------------------------------------------------------------------------
\* paymentController: createPaymentIntent and the Stripe webhook

PaymentExists(p) == p \in 1..Len(payments)

\* What stripe.paymentIntents.create answers: the status of the new intent,
\* or a rejection
StripeOutcomes == {"succeeded", "processing", "rejected"}

createPaymentIntent(u, b, stripe) ==
    IF ~ BookingExists(b)
    THEN /\ last' = Response("createPaymentIntent", u, b, 404, Absent)
         /\ UNCHANGED payments
    ELSE IF \/ ~ ConsultantExists(bookings[b].consultantId)
            \/ ~ UserExists(bookings[b].clientId)
    THEN \* populate left null in the path: reading ._id of it throws
         /\ last' = Response("createPaymentIntent", u, b, 500, Absent)
         /\ UNCHANGED payments
    ELSE IF stripe = "rejected"
    THEN /\ last' = Response("createPaymentIntent", u, b, 500, Absent)
         /\ UNCHANGED payments
    ELSE /\ payments' = Append(payments, [bookingId |-> b, status |-> stripe])
         /\ last' = Response("createPaymentIntent", u, Len(payments) + 1, 200, Absent)

CreatePaymentIntent ==
    /\ Len(payments) < MaxPayments
    /\ \E u \in Users, b \in 1..(Len(bookings) + 1), stripe \in StripeOutcomes :
          createPaymentIntent(u, b, stripe)
    /\ UNCHANGED <<clients, consultants, bookings, sessions, reviews, uploads>>
    /\ UNCHANGED <<accountVars, catalogueVars, cacheVars, furtherVars>>

\* A webhook that would also reset the duration of the booking
BookingsAfterPaymentRescheduled(b, value) ==
    IF BookingExists(b) /\ value \in PaymentStatusEnum
    THEN [bookings EXCEPT ![b].paymentStatus = value, ![b].duration = <<0, 0>>]
    ELSE bookings

\* booking.paymentStatus = value; await booking.save(): a value outside the
\* enum of the schema makes save reject, and the handler only logs that
BookingsAfterPayment(b, value) ==
    IF BookingExists(b) /\ value \in PaymentStatusEnum
    THEN [bookings EXCEPT ![b].paymentStatus = value]
    ELSE bookings

handlePaymentSuccess(p) ==
    IF PaymentExists(p)
    THEN /\ payments' = [payments EXCEPT ![p].status = "succeeded"]
         /\ bookings' = BookingsAfterPayment(payments[p].bookingId, "paid")
    ELSE UNCHANGED <<payments, bookings>>

handlePaymentFailure(p) ==
    IF PaymentExists(p)
    THEN /\ payments' = [payments EXCEPT ![p].status = "failed"]
         /\ bookings' = BookingsAfterPayment(payments[p].bookingId, "failed")
    ELSE UNCHANGED <<payments, bookings>>

EventTypes ==
    {"payment_intent.succeeded", "payment_intent.payment_failed", "charge.refunded"}

\* signed: whether stripe.webhooks.constructEvent accepts the signature
handleStripeWebhook(signed, type, p) ==
    IF ~ signed
    THEN /\ last' = Response("handleStripeWebhook", NoId, p, 400, type)
         /\ UNCHANGED <<payments, bookings>>
    ELSE /\ IF type = "payment_intent.succeeded" THEN handlePaymentSuccess(p)
            ELSE IF type = "payment_intent.payment_failed" THEN handlePaymentFailure(p)
            ELSE UNCHANGED <<payments, bookings>>
         /\ last' = Response("handleStripeWebhook", NoId, p, 200, type)

HandleStripeWebhook ==
    /\ \E signed \in BOOLEAN, type \in EventTypes, p \in 1..(Len(payments) + 1) :
          handleStripeWebhook(signed, type, p)
    /\ UNCHANGED <<clients, consultants, sessions, reviews, uploads>>
    /\ UNCHANGED <<accountVars, catalogueVars, cacheVars, furtherVars>>

----------------------------------------------------------------------------
\* Document uploads: POST /api/bookings/:id/documents,
\* POST /api/documents/upload, POST /api/documents/:bookingId/documents and
\* bookingController.uploadDocuments

\* The paths multer stored the files of a request under
FileLists == {<<>>, <<"a.pdf">>, <<"b.pdf">>}

\* The users that send upload requests: the owner of the fixture booking
\* and a stranger to it
UploadUsers == {ClientUser, OtherUser}

\* In-flight uploads that will push to booking b
UploadsOf(b) == {up \in uploads : up.id = b}

\* First half of a route handler, up to Booking.findById: the loaded
\* booking document stays in memory until the save, and nothing is
\* answered yet
loadForUpload(route, u, b, files) ==
    IF files = <<>>
    THEN /\ last' = Response(route, u, b, 400, Absent)
         /\ UNCHANGED uploads
    ELSE IF ~ BookingExists(b)
    THEN /\ last' = Response(route, u, b, 404, Absent)
         /\ UNCHANGED uploads
    ELSE /\ Cardinality(uploads) < MaxUploads
         /\ Len(bookings[b].documents) + Cardinality(UploadsOf(b)) < MaxDocuments
         /\ uploads' = uploads \cup
                {[op |-> route, user |-> u, id |-> b,
                  documents |-> bookings[b].documents, files |-> files]}
         /\ uploads' # uploads
         /\ UNCHANGED last

\* POST /api/bookings/:id/documents
PostBookingDocuments ==
    /\ \E u \in UploadUsers, b \in 1..(Len(bookings) + 1), files \in FileLists :
          loadForUpload("POST /bookings/:id/documents", u, b, files)
    /\ UNCHANGED <<clients, consultants, bookings, sessions, reviews, payments>>
    /\ UNCHANGED <<accountVars, catalogueVars, cacheVars, furtherVars>>

\* POST /api/documents/upload: one file, the booking named in the body
PostDocumentUpload ==
    /\ \E u \in UploadUsers, b \in 1..(Len(bookings) + 1), files \in FileLists :
          loadForUpload("POST /documents/upload", u, b, files)
    /\ UNCHANGED <<clients, consultants, bookings, sessions, reviews, payments>>
    /\ UNCHANGED <<accountVars, catalogueVars, cacheVars, furtherVars>>

\* POST /api/documents/:bookingId/documents
PostDocumentsOfBooking ==
    /\ \E u \in UploadUsers, b \in 1..(Len(bookings) + 1), files \in FileLists :
          loadForUpload("POST /documents/:bookingId/documents", u, b, files)
    /\ UNCHANGED <<clients, consultants, bookings, sessions, reviews, payments>>
    /\ UNCHANGED <<accountVars, catalogueVars, cacheVars, furtherVars>>

\* A save that would write the whole in-memory array over the stored one
DocumentsAfterSaveOverwriting(stored, loaded, pushed) == loaded \o pushed

\* booking.documents.push(...paths); await booking.save(): Mongoose sends
\* the push as $push, which appends to the stored array
DocumentsAfterSave(stored, loaded, pushed) == stored \o pushed

\* Second half of a route handler: push, save and the 201 response, which
\* carries the in-memory booking
saveUpload(up) ==
    /\ bookings' = [bookings EXCEPT ![up.id].documents =
                        DocumentsAfterSave(bookings[up.id].documents,
                                           up.documents, up.files)]
    /\ uploads' = uploads \ {up}
    /\ last' = Response(up.op, up.user, up.id, 201, up.documents \o up.files)

SaveUpload ==
    /\ \E up \in uploads : saveUpload(up)
    /\ UNCHANGED <<clients, consultants, sessions, reviews, payments>>
    /\ UNCHANGED <<accountVars, catalogueVars, cacheVars, furtherVars>>

\* Whether a plain object casts to an element of documents: [String]
ObjectCastsToString == FALSE

\* bookingController.uploadDocuments pushes file objects, not paths
uploadDocuments(u, b, files) ==
    IF files = <<>>
    THEN /\ last' = Response("uploadDocuments", u, b, 400, Absent)
         /\ UNCHANGED bookings
    ELSE IF ~ BookingExists(b)
    THEN /\ last' = Response("uploadDocuments", u, b, 404, Absent)
         /\ UNCHANGED bookings
    ELSE IF ~ ObjectCastsToString
    THEN \* push throws a CastError
         /\ last' = Response("uploadDocuments", u, b, 500, Absent)
         /\ UNCHANGED bookings
    ELSE /\ Len(bookings[b].documents) < MaxDocuments
         /\ bookings' = [bookings EXCEPT ![b].documents = @ \o files]
         /\ last' = Response("uploadDocuments", u, b, 200, Absent)

UploadDocuments ==
    /\ \E u \in UploadUsers, b \in 1..(Len(bookings) + 1), files \in FileLists :
          uploadDocuments(u, b, files)
    /\ UNCHANGED <<clients, consultants, sessions, reviews, payments, uploads>>
    /\ UNCHANGED <<accountVars, catalogueVars, cacheVars, furtherVars>>

----------------------------------------------------------------------------
\* Identity resolution: POST /api/auth/google/login and the verify callback
\* of the passport GoogleStrategy

\* Verified Google identities: one carries the email of a stored user, one
\* an email no user has
GoogleIdentities ==
    {[email |-> "testclient@example.com", sub |-> "g-client"],
     [email |-> "new@example.com", sub |-> "g-new"]}

\* A request without credential, and a token verifyIdToken rejects
NoCredential == [email |-> Absent, sub |-> Absent]
ForgedCredential == [email |-> "new@example.com", sub |-> "forged"]

Credentials == {NoCredential, ForgedCredential} \cup GoogleIdentities

\* Paths of userSchema declared required: true
UserRequiredPaths == {"role", "googleId", "email", "name", "password"}

\* Paths the two resolvers give to new User({...})
GoogleLoginPaths == {"googleId", "email", "name", "avatar", "role"}
GoogleStrategyPaths == {"googleId", "name", "email", "role"}

UserId(n) == <<"User", n>>

\* User.findOne({ email }) and User.findOne({ googleId })
UserFindOne(field, value) ==
    IF \E n \in 1..Len(users) : ~ users[n].removed /\ users[n][field] = value
    THEN UserId(CHOOSE n \in 1..Len(users) :
                   /\ ~ users[n].removed /\ users[n][field] = value
                   /\ \A k \in 1..Len(users) :
                         (~ users[k].removed /\ users[k][field] = value) => n <= k)
    ELSE NoId

\* new User({...}).save(): validation of the required paths, then the
\* unique index on email
UserSaveRejected(paths, identity) ==
    \/ UserRequiredPaths \ paths # {}
    \/ UserFindOne("email", identity.email) # NoId

\* First step of a resolver: the lookup of the user
resolve(route, field, credential) ==
    IF credential = NoCredential
    THEN /\ last' = Response(route, NoId, 0, 400, Absent)
         /\ UNCHANGED logins
    ELSE IF credential \notin GoogleIdentities
    THEN \* verifyIdToken throws
         /\ last' = Response(route, NoId, 0, 401, Absent)
         /\ UNCHANGED logins
    ELSE /\ Cardinality(logins) < MaxLogins
         /\ logins' = logins \cup
               {[op |-> route, identity |-> credential,
                 user |-> UserFindOne(field, IF field = "email" THEN credential.email
                                             ELSE credential.sub),
                 isNewUser |-> FALSE, existingClient |-> FALSE, pc |-> "found"]}
         /\ logins' # logins
         /\ UNCHANGED last

GoogleLogin ==
    /\ \E credential \in Credentials :
          resolve("POST /auth/google/login", "email", credential)
    /\ UNCHANGED <<clients, consultants, bookings, sessions, reviews, users>>
    /\ UNCHANGED <<paymentVars, catalogueVars, cacheVars, furtherVars>>

\* passport hands the callback a verified profile only
GoogleStrategyVerify ==
    /\ \E profile \in GoogleIdentities :
          resolve("GoogleStrategy", "googleId", profile)
    /\ UNCHANGED <<clients, consultants, bookings, sessions, reviews, users>>
    /\ UNCHANGED <<paymentVars, catalogueVars, cacheVars, furtherVars>>

\* A stored user document made of an identity
UserOf(identity) ==
    [email |-> identity.email, googleId |-> identity.sub, role |-> "client",
     removed |-> FALSE]

\* if (!user) { user = await new User({...}).save(); isNewUser = true }
LoginSaveUser ==
    /\ \E lg \in logins :
          /\ lg.pc = "found"
          /\ lg.op = "POST /auth/google/login"
          /\ IF lg.user # NoId
             THEN /\ logins' = (logins \ {lg}) \cup {[lg EXCEPT !.pc = "saved"]}
                  /\ UNCHANGED <<users, last>>
             ELSE IF UserSaveRejected(GoogleLoginPaths, lg.identity)
             THEN \* the catch block answers 401
                  /\ logins' = logins \ {lg}
                  /\ last' = Response(lg.op, NoId, 0, 401, lg.identity.email)
                  /\ UNCHANGED users
             ELSE /\ users' = Append(users, UserOf(lg.identity))
                  /\ logins' = (logins \ {lg}) \cup
                        {[lg EXCEPT !.user = UserId(Len(users) + 1),
                                    !.isNewUser = TRUE, !.pc = "saved"]}
                  /\ UNCHANGED last
    /\ UNCHANGED <<clients, consultants, bookings, sessions, reviews>>
    /\ UNCHANGED <<paymentVars, catalogueVars, cacheVars, furtherVars>>

\* The rest of the strategy callback: the save of a new user, then
\* done(null, user), or done(err, null)
StrategySaveUser ==
    /\ \E lg \in logins :
          /\ lg.pc = "found"
          /\ lg.op = "GoogleStrategy"
          /\ logins' = logins \ {lg}
          /\ IF lg.user # NoId
             THEN /\ last' = Response(lg.op, lg.user, lg.user[2], 200, lg.identity.email)
                  /\ UNCHANGED users
             ELSE IF UserSaveRejected(GoogleStrategyPaths, lg.identity)
             THEN /\ last' = Response(lg.op, NoId, 0, 500, lg.identity.email)
                  /\ UNCHANGED users
             ELSE /\ users' = Append(users, UserOf(lg.identity))
                  /\ last' = Response(lg.op, UserId(Len(users) + 1), Len(users) + 1, 200,
                                      lg.identity.email)
    /\ UNCHANGED <<clients, consultants, bookings, sessions, reviews>>
    /\ UNCHANGED <<paymentVars, catalogueVars, cacheVars, furtherVars>>

\* const existingClient = await Client.findOne({ userId: user._id })
LoginFindClient ==
    /\ \E lg \in logins :
          /\ lg.pc = "saved"
          /\ lg.op = "POST /auth/google/login"
          /\ logins' = (logins \ {lg}) \cup
                {[lg EXCEPT !.existingClient = (ClientFindOne(lg.user) # 0),
                            !.pc = "client"]}
    /\ UNCHANGED <<clients, consultants, bookings, sessions, reviews, users, last>>
    /\ UNCHANGED <<paymentVars, catalogueVars, cacheVars, furtherVars>>

\* if (isNewUser || !existingClient) await newClient.save(); then the token
\* and the response
LoginRespond ==
    /\ \E lg \in logins :
          /\ lg.pc = "client"
          /\ clients' = IF lg.isNewUser \/ ~ lg.existingClient
                        THEN Append(clients, lg.user) ELSE clients
          /\ Len(clients') <= MaxBookings + MaxLogins
          /\ logins' = logins \ {lg}
          /\ last' = Response(lg.op, lg.user, lg.user[2], 200, lg.identity.email)
    /\ UNCHANGED <<consultants, bookings, sessions, reviews, users>>
    /\ UNCHANGED <<paymentVars, catalogueVars, cacheVars, furtherVars>>

----------------------------------------------------------------------------
\* serviceController behind authMiddleware and consultantMiddleware:
\* createService, updateService, deleteService

ServiceUsers == {ConsultantUser, OtherConsultantUser, ClientUser}

\* The pricePerSession of a body that carries none (undefined)
NoPrice == -1

\* title and pricePerSession of a request body
CatalogueBodies ==
    [title : {Absent, "Coaching"}, pricePerSession : {NoPrice, 150},
     description : {"Coaching description"}, sessionDuration : {60}]

ServiceId(n) == <<"Service", n>>

\* req.user.role === 'consultant', else 403
consultantMiddleware(u) == Role(u) = "consultant"

\* The filter { _id: req.params.id, consultantId: req.user._id }
ServiceFindOne(u, id) == ServiceExists(id) /\ services[id[2]].consultantId = u

createService(u, body) ==
    IF ~ consultantMiddleware(u)
    THEN /\ last' = Response("createService", u, 0, 403, body.title)
         /\ UNCHANGED services
    ELSE IF body.title = Absent \/ body.pricePerSession = NoPrice
    THEN \* name and price are required: newService.save() rejects
         /\ last' = Response("createService", u, 0, 500, body.title)
         /\ UNCHANGED services
    ELSE /\ services' = Append(services,
                [consultantId |-> u, name |-> body.title,
                 price |-> body.pricePerSession,
                 description |-> body.description, duration |-> body.sessionDuration,
                 removed |-> FALSE])
         /\ last' = Response("createService", u, Len(services) + 1, 201, body.title)

CreateService ==
    /\ Len(services) < MaxServices
    /\ \E u \in ServiceUsers, body \in CatalogueBodies : createService(u, body)
    /\ UNCHANGED <<clients, consultants, bookings, sessions, reviews>>
    /\ UNCHANGED <<paymentVars, accountVars, slots, cacheVars, furtherVars>>

\* Service.findOneAndUpdate(filter, { name: title, price: pricePerSession }):
\* a key whose value is undefined is left out of the update
ServiceAfterUpdate(service, body) ==
    [service EXCEPT
        !.name = IF body.title = Absent THEN @ ELSE body.title,
        !.price = IF body.pricePerSession = NoPrice THEN @ ELSE body.pricePerSession]

updateService(u, n, body) ==
    IF ~ consultantMiddleware(u)
    THEN /\ last' = Response("updateService", u, n, 403, body.title)
         /\ UNCHANGED services
    ELSE IF ~ ServiceFindOne(u, ServiceId(n))
    THEN /\ last' = Response("updateService", u, n, 404, body.title)
         /\ UNCHANGED services
    ELSE /\ services' = [services EXCEPT ![n] = ServiceAfterUpdate(services[n], body)]
         /\ last' = Response("updateService", u, n, 200, body.title)

UpdateService ==
    /\ \E u \in ServiceUsers, n \in 1..(Len(services) + 1), body \in CatalogueBodies :
          updateService(u, n, body)
    /\ UNCHANGED <<clients, consultants, bookings, sessions, reviews>>
    /\ UNCHANGED <<paymentVars, accountVars, slots, cacheVars, furtherVars>>

\* Service.findOneAndDelete(filter)
deleteService(u, n) ==
    IF ~ consultantMiddleware(u)
    THEN /\ last' = Response("deleteService", u, n, 403, Absent)
         /\ UNCHANGED services
    ELSE IF ~ ServiceFindOne(u, ServiceId(n))
    THEN /\ last' = Response("deleteService", u, n, 404, Absent)
         /\ UNCHANGED services
    ELSE /\ services' = [services EXCEPT ![n].removed = TRUE]
         /\ last' = Response("deleteService", u, n, 200, Absent)

DeleteService ==
    /\ \E u \in ServiceUsers, n \in 1..(Len(services) + 1) : deleteService(u, n)
    /\ UNCHANGED <<clients, consultants, bookings, sessions, reviews>>
    /\ UNCHANGED <<paymentVars, accountVars, slots, cacheVars, furtherVars>>

----------------------------------------------------------------------------
\* consultantController.updateConsultantServices (PUT /api/consultants/services)

\* The time slots in the services of a request body; isBooked is left to
\* its default
SlotLists == {{}, {[date |-> Date1, time |-> <<14, 0>>, isBooked |-> FALSE]}}

\* Consultant.findOne({ userId: req.user._id })
ConsultantFindOne(u) == {c \in DOMAIN consultants : consultants[c].userId = u}

\* The services of a request body without their time slots: none, or one
\* described as a stored Service is
OfferLists ==
    {<<>>,
     <<[title |-> "Mentoring", description |-> "Coaching description",
        pricePerSession |-> 200, sessionDuration |-> 30]>>}

\* consultant.services = req.body.services || consultant.services
updateConsultantServices(u, given, list, embedded) ==
    IF ConsultantFindOne(u) = {}
    THEN /\ last' = Response("updateConsultantServices", u, 0, 404, Absent)
         /\ UNCHANGED <<slots, offers>>
    ELSE /\ slots' = IF given THEN list ELSE slots
         /\ offers' = IF given
                       THEN [c \in DOMAIN offers |->
                               IF c \in ConsultantFindOne(u) THEN embedded ELSE offers[c]]
                       ELSE offers
         /\ last' = Response("updateConsultantServices", u, 0, 200, Absent)

UpdateConsultantServices ==
    /\ \E u \in {ConsultantUser, ClientUser}, given \in BOOLEAN, list \in SlotLists,
          embedded \in OfferLists :
          updateConsultantServices(u, given, list, embedded)
    /\ UNCHANGED <<clients, consultants, bookings, sessions, reviews>>
    /\ UNCHANGED <<paymentVars, accountVars, services, cacheVars, adminVars, raceVars,
                   frontendVars>>

----------------------------------------------------------------------------
\* The cached services router (src_backup/routes/services.js) behind
\* cacheMiddleware.  The router names Service without requiring it; the
\* model reads the name as the Service model.

\* req.originalUrl of GET / and of GET /:id
ListKey == <<"/api/services", 0>>
ItemKey(n) == <<"/api/services/", n>>

\* redisClient.get(cacheKey): the entries stored under the key
CacheGet(key) == {e \in cache : e.key = key}

\* redisClient.setEx(cacheKey, duration, JSON.stringify(data))
CacheSetEx(key, body) == (cache \ CacheGet(key)) \cup {[key |-> key, body |-> body]}

\* What the handler of the key reads: Service.find(), Service.findById(id)
ServiceRead(key) ==
    IF key = ListKey THEN services
    ELSE IF ServiceExists(ServiceId(key[2])) THEN <<services[key[2]]>>
    ELSE <<>>

\* cacheMiddleware up to redisClient.get: a hit is answered from the cache,
\* a miss goes on to the handler
cacheMiddleware(key) ==
    IF CacheGet(key) # {}
    THEN /\ \E e \in CacheGet(key) : last' = Response("cache hit", NoId, key[2], 200, e.body)
         /\ UNCHANGED gets
    ELSE /\ Cardinality(gets) < MaxGets
         /\ gets' = gets \cup {[key |-> key, pc |-> "missed", body |-> <<>>]}
         /\ UNCHANGED last

GetServices ==
    /\ \E key \in {ListKey} \cup {ItemKey(n) : n \in 1..(Len(services) + 1)} :
          cacheMiddleware(key)
    /\ UNCHANGED <<clients, consultants, bookings, sessions, reviews, cache, clears>>
    /\ UNCHANGED <<paymentVars, accountVars, catalogueVars, furtherVars>>

\* The handler's query: await Service.find() or await Service.findById(id)
GetServicesRead ==
    /\ \E g \in gets :
          /\ g.pc = "missed"
          /\ gets' = (gets \ {g}) \cup {[g EXCEPT !.pc = "read", !.body = ServiceRead(g.key)]}
    /\ UNCHANGED <<clients, consultants, bookings, sessions, reviews, last, cache, clears>>
    /\ UNCHANGED <<paymentVars, accountVars, catalogueVars, furtherVars>>

\* The overridden res.json: setEx of the body, then the original res.json;
\* the 404 of a missing item goes through it as well
GetServicesRespond ==
    /\ \E g \in gets :
          /\ g.pc = "read"
          /\ cache' = CacheSetEx(g.key, g.body)
          /\ gets' = gets \ {g}
          /\ last' = Response("GET", NoId, g.key[2],
                              IF g.key # ListKey /\ g.body = <<>> THEN 404 ELSE 200, g.body)
    /\ UNCHANGED <<clients, consultants, bookings, sessions, reviews, clears>>
    /\ UNCHANGED <<paymentVars, accountVars, catalogueVars, furtherVars>>

\* The body of the write requests of the router
RouterBody ==
    [name |-> "Coaching", price |-> 150,
     description |-> "Coaching description", duration |-> 60]

\* router.post('/'): new Service(req.body).save(), up to the clearCache
RouterCreate ==
    /\ Len(services) < MaxServices
    /\ Cardinality(clears) < MaxClears
    /\ services' = Append(services,
            [consultantId |-> NoId, name |-> RouterBody.name,
             price |-> RouterBody.price,
             description |-> RouterBody.description, duration |-> RouterBody.duration,
             removed |-> FALSE])
    /\ clears' = clears \cup
            {[op |-> "POST", id |-> Len(services) + 1, code |-> 201, pc |-> "written",
              keys |-> {}]}
    /\ UNCHANGED <<clients, consultants, bookings, sessions, reviews, last, cache, gets>>
    /\ UNCHANGED <<paymentVars, accountVars, slots, furtherVars>>

\* router.put('/:id'): Service.findByIdAndUpdate(id, req.body), 404 when
\* nothing is found
RouterUpdate ==
    /\ \E n \in 1..(Len(services) + 1) :
          IF ~ ServiceExists(ServiceId(n))
          THEN /\ last' = Response("PUT", NoId, n, 404, Absent)
               /\ UNCHANGED <<services, clears>>
          ELSE /\ Cardinality(clears) < MaxClears
               /\ services' = [services EXCEPT ![n].name = RouterBody.name,
                                               ![n].price = RouterBody.price]
               /\ clears' = clears \cup
                      {[op |-> "PUT", id |-> n, code |-> 200, pc |-> "written", keys |-> {}]}
               /\ UNCHANGED last
    /\ UNCHANGED <<clients, consultants, bookings, sessions, reviews, cache, gets>>
    /\ UNCHANGED <<paymentVars, accountVars, slots, furtherVars>>

\* router.delete('/:id'): Service.findByIdAndDelete(id)
RouterDelete ==
    /\ \E n \in 1..(Len(services) + 1) :
          IF ~ ServiceExists(ServiceId(n))
          THEN /\ last' = Response("DELETE", NoId, n, 404, Absent)
               /\ UNCHANGED <<services, clears>>
          ELSE /\ Cardinality(clears) < MaxClears
               /\ services' = [services EXCEPT ![n].removed = TRUE]
               /\ clears' = clears \cup
                      {[op |-> "DELETE", id |-> n, code |-> 200, pc |-> "written",
                        keys |-> {}]}
               /\ UNCHANGED last
    /\ UNCHANGED <<clients, consultants, bookings, sessions, reviews, cache, gets>>
    /\ UNCHANGED <<paymentVars, accountVars, slots, furtherVars>>

\* clearCache: const keys = await redisClient.keys('*/services*')
ClearCacheKeys ==
    /\ \E w \in clears :
          /\ w.pc = "written"
          /\ clears' = (clears \ {w}) \cup
                {[w EXCEPT !.pc = "listed", !.keys = {e.key : e \in cache}]}
    /\ UNCHANGED <<clients, consultants, bookings, sessions, reviews, last, cache, gets>>
    /\ UNCHANGED <<paymentVars, accountVars, catalogueVars, furtherVars>>

\* if (keys.length > 0) await redisClient.del(keys); then the response of
\* the write
ClearCacheDel ==
    /\ \E w \in clears :
          /\ w.pc = "listed"
          /\ cache' = {e \in cache : e.key \notin w.keys}
          /\ clears' = clears \ {w}
          /\ last' = Response(w.op, NoId, w.id, w.code, Absent)
    /\ UNCHANGED <<clients, consultants, bookings, sessions, reviews, gets>>
    /\ UNCHANGED <<paymentVars, accountVars, catalogueVars, furtherVars>>

----------------------------------------------------------------------------
\* adminController behind authMiddleware: routes/adminRoutes.js

\* The users that send requests to the admin router
AdminCallers == {ClientUser, AdminUser}

\* The users the requests name, and an ObjectId that names no user
UserTargets == {ClientUser, OtherUser, <<"User", 9>>}

\* protect: the user of the token, loaded with User.findById
protect(u) == UserExists(u)

\* Admin.findOne({ userId: req.user._id })
AdminFindOne(u) ==
    IF \E n \in 1..Len(admins) : admins[n].userId = u
    THEN CHOOSE n \in 1..Len(admins) :
            /\ admins[n].userId = u
            /\ \A k \in 1..Len(admins) : admins[k].userId = u => n <= k
    ELSE 0

\* req.body of POST /api/admin
AdminBodies == [userId : {ClientUser, AdminUser, NoId}, role : {"admin", "client"}]

createAdmin ==
    /\ Len(admins) < MaxAdmins
    /\ \E u \in AdminCallers, body \in AdminBodies :
          IF ~ protect(u)
          THEN /\ last' = Response("createAdmin", u, 0, 401, Absent)
               /\ UNCHANGED admins
          ELSE IF body.role # "admin"
          THEN /\ last' = Response("createAdmin", u, 0, 400, Absent)
               /\ UNCHANGED admins
          ELSE IF body.userId = NoId
          THEN \* userId is required: save rejects
               /\ last' = Response("createAdmin", u, 0, 500, Absent)
               /\ UNCHANGED admins
          ELSE /\ admins' = Append(admins, [userId |-> body.userId, activityLogs |-> 0])
               /\ last' = Response("createAdmin", u, Len(admins) + 1, 201, Absent)
    /\ UNCHANGED <<clients, consultants, bookings, sessions, reviews>>
    /\ UNCHANGED <<paymentVars, accountVars, catalogueVars, cacheVars, listingVars, raceVars,
                   frontendVars>>

\* activityLogs is kept as the number of its entries
logActivity ==
    /\ \E u \in AdminCallers :
          IF ~ protect(u)
          THEN /\ last' = Response("logActivity", u, 0, 401, Absent)
               /\ UNCHANGED admins
          ELSE IF AdminFindOne(u) = 0
          THEN /\ last' = Response("logActivity", u, 0, 404, Absent)
               /\ UNCHANGED admins
          ELSE /\ admins[AdminFindOne(u)].activityLogs < MaxLogs
               /\ admins' = [admins EXCEPT ![AdminFindOne(u)].activityLogs = @ + 1]
               /\ last' = Response("logActivity", u, AdminFindOne(u), 200, Absent)
    /\ UNCHANGED <<clients, consultants, bookings, sessions, reviews>>
    /\ UNCHANGED <<paymentVars, accountVars, catalogueVars, cacheVars, listingVars, raceVars,
                   frontendVars>>

getActivityLogs ==
    /\ \E u \in AdminCallers :
          last' = Response("getActivityLogs", u, AdminFindOne(u),
                           IF ~ protect(u) THEN 401
                           ELSE IF AdminFindOne(u) = 0 THEN 404 ELSE 200,
                           Absent)
    /\ UNCHANGED <<clients, consultants, bookings, sessions, reviews>>
    /\ UNCHANGED others

getAllAdmins ==
    /\ \E u \in AdminCallers :
          last' = Response("getAllAdmins", u, 0, IF ~ protect(u) THEN 401 ELSE 200, Absent)
    /\ UNCHANGED <<clients, consultants, bookings, sessions, reviews>>
    /\ UNCHANGED others

getAllUsers ==
    /\ \E u \in AdminCallers :
          last' = Response("getAllUsers", u, 0, IF ~ protect(u) THEN 401 ELSE 200, Absent)
    /\ UNCHANGED <<clients, consultants, bookings, sessions, reviews>>
    /\ UNCHANGED others

getUserByAdmin ==
    /\ \E u \in AdminCallers, id \in UserTargets :
          last' = Response("getUserByAdmin", u, id[2],
                           IF ~ protect(u) THEN 401
                           ELSE IF ~ UserExists(id) THEN 404 ELSE 200,
                           Absent)
    /\ UNCHANGED <<clients, consultants, bookings, sessions, reviews>>
    /\ UNCHANGED others

\* req.body of PUT /api/admin/users/:id
UserUpdates == {[role |-> "admin"], [role |-> "client"]}

\* User.findByIdAndUpdate(req.params.id, { $set: req.body }, { new: true })
updateUserByAdmin ==
    /\ \E u \in AdminCallers, id \in UserTargets, body \in UserUpdates :
          IF ~ protect(u)
          THEN /\ last' = Response("updateUserByAdmin", u, id[2], 401, Absent)
               /\ UNCHANGED users
          ELSE IF ~ UserExists(id)
          THEN /\ last' = Response("updateUserByAdmin", u, id[2], 404, Absent)
               /\ UNCHANGED users
          ELSE /\ users' = [users EXCEPT ![id[2]].role = body.role]
               /\ last' = Response("updateUserByAdmin", u, id[2], 200, body.role)
    /\ UNCHANGED <<clients, consultants, bookings, sessions, reviews, logins>>
    /\ UNCHANGED <<paymentVars, catalogueVars, cacheVars, furtherVars>>

\* User.findByIdAndDelete(req.params.id)
deleteUserByAdmin ==
    /\ \E u \in AdminCallers, id \in UserTargets :
          IF ~ protect(u)
          THEN /\ last' = Response("deleteUserByAdmin", u, id[2], 401, Absent)
               /\ UNCHANGED users
          ELSE IF ~ UserExists(id)
          THEN /\ last' = Response("deleteUserByAdmin", u, id[2], 404, Absent)
               /\ UNCHANGED users
          ELSE /\ users' = [users EXCEPT ![id[2]].removed = TRUE]
               /\ last' = Response("deleteUserByAdmin", u, id[2], 200, Absent)
    /\ UNCHANGED <<clients, consultants, bookings, sessions, reviews, logins>>
    /\ UNCHANGED <<paymentVars, catalogueVars, cacheVars, furtherVars>>

----------------------------------------------------------------------------
\* serviceController.getServices (GET /api/services, public)

\* The entries (consultant, index) whose service.description is d
ServiceMapHits(d) ==
    {h \in (DOMAIN offers) \X (1..MaxServices) :
        h[2] \in 1..Len(offers[h[1]]) /\ offers[h[1]][h[2]].description = d}

\* serviceMap.get(d): serviceMap.set replaces an earlier entry of the key,
\* so the last consultant and service in the order of the loops stays
ServiceMapGet(d) ==
    LET h == CHOOSE x \in ServiceMapHits(d) :
                \A k \in ServiceMapHits(d) :
                    \/ k[1][2] < x[1][2]
                    \/ (k[1] = x[1] /\ k[2] <= x[2])
    IN [consultantId |-> h[1],
        name |-> offers[h[1]][h[2]].title,
        price |-> offers[h[1]][h[2]].pricePerSession,
        duration |-> offers[h[1]][h[2]].sessionDuration]

\* Service.findByIdAndUpdate(service._id, { consultantId, name, price,
\* duration }) for a service whose description is a key of serviceMap
ServiceAfterListing(service) ==
    IF ServiceMapHits(service.description) # {}
    THEN [service EXCEPT
            !.consultantId = ServiceMapGet(service.description).consultantId,
            !.name = ServiceMapGet(service.description).name,
            !.price = ServiceMapGet(service.description).price,
            !.duration = ServiceMapGet(service.description).duration]
    ELSE service

getServices ==
    /\ services' = [n \in 1..Len(services) |->
                      IF services[n].removed THEN services[n]
                      ELSE ServiceAfterListing(services[n])]
    /\ last' = Response("getServices", NoId, 0, 200, Absent)
    /\ UNCHANGED <<clients, consultants, bookings, sessions, reviews>>
    /\ UNCHANGED <<paymentVars, accountVars, slots, cacheVars, furtherVars>>

----------------------------------------------------------------------------
\* reviewController between its awaits: createReview and updateReview as
\* the steps other requests can interleave with

\* The users that send review requests
ReviewUsers == {ClientUser, OtherUser}

\* The update a request holds before its Review.find has answered
NoRatingUpdate == [averageRating |-> [num |-> 0, den |-> 1], totalReviews |-> 0]

\* A unique index that was never built
ReviewSaveRejectedNever(b) == \E r \in StoredReviews : reviews[r].bookingId = b /\ FALSE

\* review.save() of a new Review: the Review of a booking is unique, so the
\* save of a second one for the booking is rejected
ReviewSaveRejected(b) == \E r \in StoredReviews : reviews[r].bookingId = b

\* createReview up to the answer of Review.findOne({ bookingId })
CreateReviewCheck ==
    /\ \E u \in ReviewUsers, b \in 1..(Len(bookings) + 1), rating \in Ratings :
          IF ~ BookingExists(b)
          THEN /\ last' = Response("createReview", u, b, 404, Absent)
               /\ UNCHANGED reviewing
          ELSE IF ~ Reviewable(bookings[b])
          THEN /\ last' = Response("createReview", u, b, 400, "not completed")
               /\ UNCHANGED reviewing
          ELSE IF ExistingReview(b)
          THEN /\ last' = Response("createReview", u, b, 400, "already reviewed")
               /\ UNCHANGED reviewing
          ELSE /\ Cardinality(reviewing) < MaxReviewing
               /\ reviewing' = reviewing \cup
                     {[op |-> "createReview", user |-> u, id |-> b, rating |-> rating,
                       consultantId |-> bookings[b].consultantId,
                       update |-> NoRatingUpdate, pc |-> "checked"]}
               /\ reviewing' # reviewing
               /\ UNCHANGED last
    /\ UNCHANGED <<clients, consultants, bookings, sessions, reviews>>
    /\ UNCHANGED <<paymentVars, accountVars, catalogueVars, cacheVars>>
    /\ UNCHANGED <<adminVars, listingVars, frontendVars>>

\* await review.save() of createReview; a rejected save is caught (500)
CreateReviewSave ==
    /\ \E rq \in reviewing :
          /\ rq.pc = "checked"
          /\ IF ReviewSaveRejected(rq.id)
             THEN /\ reviewing' = reviewing \ {rq}
                  /\ last' = Response(rq.op, rq.user, rq.id, 500, "duplicate key")
                  /\ UNCHANGED reviews
             ELSE /\ Len(reviews) < MaxReviews
                  /\ reviews' = Append(reviews,
                        [bookingId |-> rq.id,
                         consultantId |-> rq.consultantId,
                         clientId |-> rq.user,
                         rating |-> rq.rating,
                         removed |-> FALSE])
                  /\ reviewing' = (reviewing \ {rq}) \cup {[rq EXCEPT !.pc = "saved"]}
                  /\ UNCHANGED last
    /\ UNCHANGED <<clients, consultants, bookings, sessions>>
    /\ UNCHANGED <<paymentVars, accountVars, catalogueVars, cacheVars>>
    /\ UNCHANGED <<adminVars, listingVars, frontendVars>>

\* updateReview up to the answer of review.save()
UpdateReviewSave ==
    /\ \E u \in ReviewUsers, r \in 1..(Len(reviews) + 1), rating \in Ratings \cup {0} :
          IF ~ ReviewExists(r)
          THEN /\ last' = Response("updateReview", u, r, 404, Absent)
               /\ UNCHANGED <<reviews, reviewing>>
          ELSE IF reviews[r].clientId # u
          THEN /\ last' = Response("updateReview", u, r, 403, Absent)
               /\ UNCHANGED <<reviews, reviewing>>
          ELSE /\ Cardinality(reviewing) < MaxReviewing
               /\ reviews' = [reviews EXCEPT
                      ![r].rating = IF rating # 0 THEN rating ELSE @]
               /\ reviewing' = reviewing \cup
                     {[op |-> "updateReview", user |-> u, id |-> r, rating |-> rating,
                       consultantId |-> reviews[r].consultantId,
                       update |-> NoRatingUpdate, pc |-> "saved"]}
               /\ reviewing' # reviewing
               /\ UNCHANGED last
    /\ UNCHANGED <<clients, consultants, bookings, sessions>>
    /\ UNCHANGED <<paymentVars, accountVars, catalogueVars, cacheVars>>
    /\ UNCHANGED <<adminVars, listingVars, frontendVars>>

\* updateConsultantRating: const reviews = await Review.find({ consultantId })
RatingRead ==
    /\ \E rq \in reviewing :
          /\ rq.pc = "saved"
          /\ reviewing' = (reviewing \ {rq}) \cup
                {[rq EXCEPT !.update = RatingUpdate(reviews, rq.consultantId),
                            !.pc = "read"]}
    /\ UNCHANGED <<clients, consultants, bookings, sessions, reviews, last>>
    /\ UNCHANGED <<paymentVars, accountVars, catalogueVars, cacheVars>>
    /\ UNCHANGED <<adminVars, listingVars, frontendVars>>

\* updateConsultantRating: await Consultant.findByIdAndUpdate(consultantId,
\* {...}), then the response of the handler
RatingWrite ==
    /\ \E rq \in reviewing :
          /\ rq.pc = "read"
          /\ consultants' = ConsultantFindByIdAndUpdate(rq.consultantId, rq.update)
          /\ reviewing' = reviewing \ {rq}
          /\ last' = Response(rq.op, rq.user, rq.id,
                              IF rq.op = "createReview" THEN 201 ELSE 200, Absent)
    /\ UNCHANGED <<clients, bookings, sessions, reviews>>
    /\ UNCHANGED <<paymentVars, accountVars, catalogueVars, cacheVars>>
    /\ UNCHANGED <<adminVars, listingVars, frontendVars>>

----------------------------------------------------------------------------
\* Frontend: services/cache.js (fetcher, the axios interceptors, cacheUtils)

\* How a request settles: data, data under cache-control immutable, an
\* error, an error with status 401
Outcomes == {"data", "immutable", "error", "401"}

\* pendingRequests.has(url): 0 stands for a key without entry
PendingHas(url) == pendingRequests[url] # 0

\* The requests that were sent and have not been answered
InFlight(url) ==
    {n \in 1..Len(fetches) : fetches[n].url = url /\ fetches[n].status = "flight"}

\* export const fetcher = async (url) => {...}
fetcher ==
    /\ \E c \in Callers, url \in URLs :
          /\ \A w \in awaiting : w.caller # c
          /\ IF url \in staticCache
             THEN /\ delivered' = [delivered EXCEPT
                        ![c] = [url |-> url, id |-> 0, outcome |-> "static"]]
                  /\ UNCHANGED <<pendingRequests, fetches, awaiting>>
             ELSE IF PendingHas(url)
             THEN /\ awaiting' = awaiting \cup
                        {[caller |-> c, url |-> url, id |-> pendingRequests[url]]}
                  /\ UNCHANGED <<pendingRequests, fetches, delivered>>
             ELSE /\ Len(fetches) < MaxFetches
                  /\ fetches' = Append(fetches,
                        [url |-> url, status |-> "flight", outcome |-> "none"])
                  /\ pendingRequests' = [pendingRequests EXCEPT ![url] = Len(fetches) + 1]
                  /\ awaiting' = awaiting \cup
                        {[caller |-> c, url |-> url, id |-> Len(fetches) + 1]}
                  /\ UNCHANGED delivered
    /\ UNCHANGED <<staticCache, appVars>>
    /\ UNCHANGED backendVars

\* cacheUtils.clearAll: pendingRequests.clear(); staticCache.clear()
clearAll ==
    /\ pendingRequests' = [url \in URLs |-> 0]
    /\ staticCache' = {}

\* The response interceptors of axiosInstance: an immutable response is put
\* into staticCache; a 401 dispatches auth:unauthorized, which the listener
\* of a mounted AppProvider answers with cacheUtils.clearAll()
ResponseInterceptor ==
    /\ \E n \in 1..Len(fetches), outcome \in Outcomes :
          /\ fetches[n].status = "flight"
          /\ fetches' = [fetches EXCEPT ![n].status = "settled", ![n].outcome = outcome]
          /\ IF outcome = "immutable"
             THEN /\ staticCache' = staticCache \cup {fetches[n].url}
                  /\ UNCHANGED pendingRequests
             ELSE IF outcome = "401" /\ mounted
             THEN clearAll
             ELSE UNCHANGED <<staticCache, pendingRequests>>
    /\ UNCHANGED <<awaiting, delivered, appVars>>
    /\ UNCHANGED backendVars

\* .finally(() => { pendingRequests.delete(url) })
PendingAfterFinally(url) == [pendingRequests EXCEPT ![url] = 0]

\* The finally callback of a settled request, then the settlement of the
\* promise every caller of the request holds
FetcherFinally ==
    /\ \E n \in 1..Len(fetches) :
          /\ fetches[n].status = "settled"
          /\ fetches' = [fetches EXCEPT ![n].status = "done"]
          /\ pendingRequests' = PendingAfterFinally(fetches[n].url)
          /\ awaiting' = {w \in awaiting : w.id # n}
          /\ delivered' = [c \in Callers |->
                IF \E w \in awaiting : w.caller = c /\ w.id = n
                THEN [url |-> fetches[n].url, id |-> n, outcome |-> fetches[n].outcome]
                ELSE delivered[c]]
    /\ UNCHANGED <<staticCache, appVars>>
    /\ UNCHANGED backendVars

----------------------------------------------------------------------------
\* Frontend: AppContext.js (AppProvider)

\* The effect 'Initialize application data only once': initializeApp()
initializeApp ==
    /\ IF ~ globalInitPromise
       THEN \* the body starts: refreshData() and checkAuthAndLoadUser()
            /\ globalInitPromise' = TRUE
            /\ initStarts' = initStarts + 1
            /\ initRunning' = initRunning + 1
       ELSE UNCHANGED <<globalInitPromise, initStarts, initRunning>>
    /\ isInitialized' = TRUE

\* AppProvider mounts (React.StrictMode mounts, unmounts and mounts again,
\* with the refs of the first mount)
Mount ==
    /\ ~ mounted
    /\ mounts < MaxMounts
    /\ mounted' = TRUE
    /\ mounts' = mounts + 1
    /\ initializeApp
    /\ UNCHANGED fetchVars
    /\ UNCHANGED backendVars

\* The cleanup of the effect: if (isInitialized.current) globalInitPromise = null
Unmount ==
    /\ mounted
    /\ mounted' = FALSE
    /\ globalInitPromise' = IF isInitialized THEN FALSE ELSE globalInitPromise
    /\ UNCHANGED <<isInitialized, initStarts, initRunning, mounts>>
    /\ UNCHANGED fetchVars
    /\ UNCHANGED backendVars

\* The promise of a started body settles
InitSettle ==
    /\ initRunning > 0
    /\ initRunning' = initRunning - 1
    /\ UNCHANGED <<globalInitPromise, isInitialized, mounted, initStarts, mounts>>
    /\ UNCHANGED fetchVars
    /\ UNCHANGED backendVars

\* handleLogout: auth:logout reaches the listener of a mounted AppProvider
Logout ==
    /\ mounted
    /\ clearAll
    /\ UNCHANGED <<fetches, awaiting, delivered, appVars>>
    /\ UNCHANGED backendVars

----------------------------------------------------------------------------
\* Specifications

\* Booking lifecycle: the handlers that create bookings and act on them
Next ==
    \/ CreateBooking
    \/ BookConsultantService
    \/ UpdateBooking
    \/ DeleteBooking
    \/ CancelBooking
    \/ CreateSession
    \/ EndSession

Spec == Init /\ [][Next]_vars

\* Reviews: the review handlers, with the handlers that change the status
\* of the bookings under review or remove them
NextReview ==
    \/ UpdateBooking
    \/ DeleteBooking
    \/ CreateSession
    \/ EndSession
    \/ CreateReview
    \/ UpdateReview
    \/ DeleteReview

ReviewSpec == Init /\ [][NextReview]_vars

\* Payments: the handlers that read or write paymentStatus
NextPayment ==
    \/ CreateBooking
    \/ UpdateBooking
    \/ CreatePaymentIntent
    \/ HandleStripeWebhook

PaymentSpec == Init /\ [][NextPayment]_vars

\* Writes: the handlers that write a booking after it was created
NextWrite ==
    \/ UpdateBooking
    \/ CreatePaymentIntent
    \/ HandleStripeWebhook
    \/ UploadDocuments
    \/ CreateSession
    \/ EndSession

WriteSpec == Init /\ [][NextWrite]_vars

\* Documents: the handlers that write the documents of a booking or remove
\* the booking, each upload route in its two halves
NextDocument ==
    \/ DeleteBooking
    \/ PostBookingDocuments
    \/ PostDocumentUpload
    \/ PostDocumentsOfBooking
    \/ SaveUpload
    \/ UploadDocuments

DocumentSpec == Init /\ [][NextDocument]_vars

\* Accounts: the two resolvers of a Google identity, step by step, with the
\* booking handler that creates Client profiles as well
NextAccount ==
    \/ GoogleLogin
    \/ GoogleStrategyVerify
    \/ LoginSaveUser
    \/ StrategySaveUser
    \/ LoginFindClient
    \/ LoginRespond
    \/ CreateBooking

AccountSpec == Init /\ [][NextAccount]_vars

\* Catalogue: the handlers that write the Service collection
NextCatalogue ==
    \/ CreateService
    \/ UpdateService
    \/ DeleteService

CatalogueSpec == Init /\ [][NextCatalogue]_vars

\* Slots: the consultant publishes time slots, clients book and cancel
NextSlot ==
    \/ UpdateConsultantServices
    \/ CreateBooking
    \/ BookConsultantService
    \/ UpdateBooking
    \/ CancelBooking

SlotSpec == Init /\ [][NextSlot]_vars

\* Cache: the GETs and the writes of the cached services router, step by
\* step
NextCache ==
    \/ GetServices
    \/ GetServicesRead
    \/ GetServicesRespond
    \/ RouterCreate
    \/ RouterUpdate
    \/ RouterDelete
    \/ ClearCacheKeys
    \/ ClearCacheDel

CacheSpec == Init /\ [][NextCache]_vars

\* Administration: the routes of the admin router
NextAdmin ==
    \/ createAdmin
    \/ logActivity
    \/ getActivityLogs
    \/ getAllAdmins
    \/ getAllUsers
    \/ getUserByAdmin
    \/ updateUserByAdmin
    \/ deleteUserByAdmin

AdminSpec == Init /\ [][NextAdmin]_vars

\* Listing: the public listing of the services, with the handlers that
\* write the Service collection and the services the consultants embed
NextListing ==
    \/ CreateService
    \/ UpdateService
    \/ DeleteService
    \/ UpdateConsultantServices
    \/ getServices

ListingSpec == Init /\ [][NextListing]_vars

\* Interleaved reviews: the review handlers between their awaits, with the
\* handler that completes the booking under review
NextRace ==
    \/ UpdateBooking
    \/ CreateReviewCheck
    \/ CreateReviewSave
    \/ UpdateReviewSave
    \/ RatingRead
    \/ RatingWrite
    \/ DeleteReview

RaceSpec == Init /\ [][NextRace]_vars

\* Interleaved createReview requests alone
NextCreateRace ==
    \/ UpdateBooking
    \/ CreateReviewCheck
    \/ CreateReviewSave
    \/ RatingRead
    \/ RatingWrite

CreateRaceSpec == Init /\ [][NextCreateRace]_vars

\* Frontend: the fetcher with the interceptors, and AppProvider
NextFrontend ==
    \/ fetcher
    \/ ResponseInterceptor
    \/ FetcherFinally
    \/ Mount
    \/ Unmount
    \/ InitSettle
    \/ Logout

FrontendSpec == Init /\ [][NextFrontend]_vars

----------------------------------------------------------------------------
\* Parties of a booking

\* The user a booking's clientId stands for: the User itself, or the owner
\* of the Client profile
OwnerUser(booking) ==
    IF booking.clientId[1] = "User" THEN booking.clientId
    ELSE IF booking.clientId[2] \in 1..Len(clients) THEN clients[booking.clientId[2]]
    ELSE NoId

\* The user that owns the booking's Consultant profile
OwningConsultantUser(booking) ==
    IF ConsultantExists(booking.consultantId)
    THEN consultants[booking.consultantId].userId
    ELSE NoId

\* The user a service belongs to: the User its consultantId names, or the
\* owner of the Consultant profile it names
ServiceOwner(service) ==
    IF service.consultantId[1] = "User" THEN service.consultantId
    ELSE IF ConsultantExists(service.consultantId)
    THEN consultants[service.consultantId].userId
    ELSE NoId

----------------------------------------------------------------------------
\* Properties

\* C1: every accepted createBooking (201) stores a booking with status
\* pending and paymentStatus pending whose consultantId and serviceId
\* reference an existing consultant and an existing service.
C1_AcceptedBookingIsPendingAndReferential ==
    (last.op = "createBooking" /\ last.code = 201) =>
        /\ bookings[last.id].status = "pending"
        /\ bookings[last.id].paymentStatus = "pending"
        /\ ConsultantExists(bookings[last.id].consultantId)
        /\ ServiceExists(bookings[last.id].serviceId)

\* C2: the status of a booking changes only along pending -> confirmed,
\* pending -> cancelled, confirmed -> completed, confirmed -> cancelled; in
\* particular a completed or cancelled booking keeps its status.
C2_StatusMovesAlongLegalEdges ==
    [][\A b \in 1..Len(bookings) :
          bookings'[b].status # bookings[b].status =>
              <<bookings[b].status, bookings'[b].status>> \in
                  {<<"pending", "confirmed">>, <<"pending", "cancelled">>,
                   <<"confirmed", "completed">>, <<"confirmed", "cancelled">>}]_vars

\* C3: at most one non-cancelled booking exists per consultant, calendar day
\* and time, so of two createBooking calls for one slot only one succeeds.
C3_OneActiveBookingPerSlot ==
    \A b1, b2 \in StoredBookings :
        (/\ b1 # b2
         /\ bookings[b1].consultantId = bookings[b2].consultantId
         /\ CalendarDay(bookings[b1].date) = CalendarDay(bookings[b2].date)
         /\ bookings[b1].time = bookings[b2].time
         /\ bookings[b1].status # "cancelled")
        => bookings[b2].status = "cancelled"

\* C4: a createReview for a booking that is not completed is rejected,
\* stores no review and leaves the consultants unchanged; whenever a review
\* is stored, its booking exists and is completed at that moment.
C4_ReviewOnlyForCompletedBooking ==
    [][/\ (/\ last'.op = "createReview"
           /\ BookingExists(last'.id)
           /\ bookings[last'.id].status # "completed")
          => /\ last'.code = 400
             /\ reviews' = reviews
             /\ consultants' = consultants
       /\ \A r \in 1..Len(reviews') :
            r > Len(reviews) =>
                /\ BookingExists(reviews'[r].bookingId)
                /\ bookings[reviews'[r].bookingId].status = "completed"]_vars

\* A createReview for a booking that is not completed was just rejected
C4_Witness ==
    /\ last.op = "createReview"
    /\ last.code = 400
    /\ last.arg = "not completed"
    /\ bookings[last.id].status \in {"pending", "confirmed", "cancelled"}
    /\ reviews = <<>>

C6_StoredRatingIsMeanOfReviews ==
    (last.op \in {"createReview", "updateReview", "deleteReview"}
     /\ last.code \in {200, 201}) =>
        \A c \in DOMAIN consultants :
            /\ consultants[c].totalReviews = Cardinality(ReviewsOf(reviews, c))
            /\ consultants[c].averageRating.den # 0
            /\ consultants[c].averageRating.num * Cardinality(ReviewsOf(reviews, c))
                 = TotalRating(reviews, ReviewsOf(reviews, c))
                     * consultants[c].averageRating.den

\* C7: cancelBooking by a user who is neither the booking's client, nor its
\* consultant, nor an admin is answered 403 and leaves the bookings unchanged.
C7_CancelByStrangerForbidden ==
    [][(/\ last'.op = "cancelBooking"
        /\ BookingExists(last'.id)
        /\ last'.user # OwnerUser(bookings[last'.id])
        /\ last'.user # OwningConsultantUser(bookings[last'.id])
        /\ Role(last'.user) # "admin")
       => /\ last'.code = 403
          /\ bookings' = bookings]_vars

\* C8: a request to set a pending booking to confirmed succeeds (200, status
\* confirmed) when it comes from the owning consultant, and is answered 403
\* with the status left pending when it comes from the booking's client.
C8_ConsultantConfirmsClientCannot ==
    [][(/\ last'.op = "updateBooking"
        /\ last'.arg = "confirmed"
        /\ BookingExists(last'.id)
        /\ bookings[last'.id].status = "pending")
       => /\ last'.user = OwningConsultantUser(bookings[last'.id])
             => /\ last'.code = 200
                /\ bookings'[last'.id].status = "confirmed"
          /\ last'.user = OwnerUser(bookings[last'.id])
             => /\ last'.code = 403
                /\ bookings'[last'.id].status = "pending"]_vars

\* C9: the status of a booking becomes completed only from confirmed and
\* only by a request of the booking's owning consultant.
C9_CompletedOnlyFromConfirmedByConsultant ==
    [][\A b \in 1..Len(bookings) :
          (bookings[b].status # "completed" /\ bookings'[b].status = "completed")
          => /\ bookings[b].status = "confirmed"
             /\ last'.user = OwningConsultantUser(bookings[b])]_vars

\* C10: cancelBooking by the booking's owning client on a pending or
\* confirmed booking is answered 200 and the booking is cancelled afterwards.
C10_OwnerCancelSucceeds ==
    [][(/\ last'.op = "cancelBooking"
        /\ BookingExists(last'.id)
        /\ last'.user = OwnerUser(bookings[last'.id])
        /\ bookings[last'.id].status \in {"pending", "confirmed"})
       => /\ last'.code = 200
          /\ bookings'[last'.id].status = "cancelled"]_vars

\* C11: the paymentStatus of a stored booking changes only in a step of the
\* payment webhook, and a booking stored by createBooking starts with
\* paymentStatus pending whatever the body carried.
C11_PaymentStatusOnlyByWebhook ==
    [][/\ \A b \in StoredBookings :
            bookings'[b].paymentStatus # bookings[b].paymentStatus
               => last'.op = "handleStripeWebhook"
       /\ \A b \in (Len(bookings) + 1)..Len(bookings') :
            bookings'[b].paymentStatus = "pending"]_vars

\* C12: no step of a status update, payment update, document upload or
\* session end changes the clientId, consultantId, serviceId, date, time or
\* duration of a stored booking.
C12_BookingIdentityFrozen ==
    [][\A b \in 1..Len(bookings) :
          /\ b <= Len(bookings')
          /\ bookings'[b].clientId = bookings[b].clientId
          /\ bookings'[b].consultantId = bookings[b].consultantId
          /\ bookings'[b].serviceId = bookings[b].serviceId
          /\ bookings'[b].date = bookings[b].date
          /\ bookings'[b].time = bookings[b].time
          /\ bookings'[b].duration = bookings[b].duration]_vars

\* The webhook has marked the fixture booking paid after a status update
\* moved it out of pending
C12_Witness ==
    /\ last.op = "handleStripeWebhook"
    /\ last.code = 200
    /\ PaymentExists(last.id)
    /\ payments[last.id].status = "succeeded"
    /\ bookings[payments[last.id].bookingId].paymentStatus = "paid"
    /\ bookings[payments[last.id].bookingId].status = "confirmed"

\* C13: in every step the documents list of every existing booking is a
\* prefix of its documents list after the step, also when the saves of two
\* uploads to the same booking interleave.
C13_DocumentsOnlyGrow ==
    [][\A b \in StoredBookings :
          /\ b \in 1..Len(bookings')
          /\ Len(bookings[b].documents) <= Len(bookings'[b].documents)
          /\ SubSeq(bookings'[b].documents, 1, Len(bookings[b].documents))
                = bookings[b].documents]_vars

\* The second of two interleaved uploads has saved: the booking it answers
\* with lacks the document the other upload stored in between
C13_Witness ==
    /\ last.code = 201
    /\ BookingExists(last.id)
    /\ Len(bookings[last.id].documents) = 2
    /\ last.arg # bookings[last.id].documents

\* C14: the documents of a stored booking change only in a step of an
\* upload sent by the client who owns the booking, and an upload by any
\* other user is not answered 201.
C14_OnlyOwnerAttachesDocuments ==
    [][\A b \in StoredBookings :
          b \in 1..Len(bookings') /\ bookings'[b].documents # bookings[b].documents
             => /\ last'.id = b
                /\ last'.code = 201
                /\ last'.user = OwnerUser(bookings[b])]_vars

\* C15: at most one User is stored per email, and every resolution of a
\* verified identity ends with 200 and the one user stored under the email
\* of the identity, who has role client when the resolution created it.
C15_ResolveIsIdempotent ==
    [][/\ \A i, j \in 1..Len(users') : users'[i].email = users'[j].email => i = j
       /\ \A lg \in logins :
             (\A after \in logins' : after.identity # lg.identity \/ after.op # lg.op)
                => /\ last'.code = 200
                   /\ last'.id \in 1..Len(users')
                   /\ users'[last'.id].email = lg.identity.email
                   /\ (last'.id > Len(users) => users'[last'.id].role = "client")]_vars

\* C16: an updateService or deleteService sent by a consultant who does not
\* own the stored service is answered 403 and leaves the Service collection
\* unchanged, and the collection changes under these two handlers only for
\* the owner.
C16_ServiceWriteOnlyByOwner ==
    [][(/\ last'.op \in {"updateService", "deleteService"}
        /\ last' # last
        /\ ServiceExists(ServiceId(last'.id))
        /\ Role(last'.user) = "consultant"
        /\ last'.user # ServiceOwner(services[last'.id]))
          => (last'.code = 403 /\ services' = services)]_vars

\* C17: a createBooking (or bookConsultantService) whose consultantId or
\* serviceId references no stored record is not answered with success and
\* stores no booking: every booking a step stores references an existing
\* consultant and an existing service.
C17_DanglingReferenceStoresNothing ==
    [][\A b \in (Len(bookings) + 1)..Len(bookings') :
          /\ ConsultantExists(bookings'[b].consultantId)
          /\ ServiceExists(bookings'[b].serviceId)]_vars

\* C18: every stored booking has a duration of at least 1 and at most 480
\* minutes and a time with hour <= 23 and minute <= 59; a request outside
\* these bounds stores no booking.
C18_StoredDurationAndTimeInRange ==
    \A b \in StoredBookings :
       /\ bookings[b].duration[1] >= 1
       /\ bookings[b].duration[1] < 480 \/ bookings[b].duration = <<480, 0>>
       /\ bookings[b].time[1] \in 0..23
       /\ bookings[b].time[2] \in 0..59

\* C19: in every reachable state a published time slot of the consultant is
\* marked isBooked exactly when a stored booking that is not cancelled has
\* the consultant, the calendar day and the time of the slot.
C19_SlotBookedIffActiveBooking ==
    \A s \in slots :
       s.isBooked <=>
          \E b \in StoredBookings :
             /\ bookings[b].consultantId = Consultant1
             /\ CalendarDay(bookings[b].date) = s.date
             /\ bookings[b].time = s.time
             /\ bookings[b].status # "cancelled"

C22_ReviewWritesOnlyByEntitledActor ==
    [][/\ (/\ last'.op = "createReview"
           /\ BookingExists(last'.id)
           /\ last'.user # OwnerUser(bookings[last'.id]))
          => /\ last'.code # 201
             /\ (Reviewable(bookings[last'.id]) /\ ~ ExistingReview(last'.id))
                    => last'.code = 403
             /\ reviews' = reviews
             /\ consultants' = consultants
       /\ (/\ last'.op = "updateReview"
           /\ ReviewExists(last'.id)
           /\ last'.user # reviews[last'.id].clientId)
          => /\ last'.code = 403
             /\ reviews' = reviews
             /\ consultants' = consultants
       /\ (/\ last'.op = "deleteReview"
           /\ ReviewExists(last'.id)
           /\ last'.user # reviews[last'.id].clientId
           /\ Role(last'.user) # "admin")
          => /\ last'.code = 403
             /\ reviews' = reviews
             /\ consultants' = consultants]_vars

\* C23: every admin route refuses an authenticated user whose role is not
\* admin (no 200 or 201) and leaves the users and the admins as they were.
C23_AdminRoutesRefuseOtherRoles ==
    [][(/\ last'.op \in {"createAdmin", "logActivity", "getActivityLogs",
                         "getAllAdmins", "getAllUsers", "getUserByAdmin",
                         "updateUserByAdmin", "deleteUserByAdmin"}
        /\ UserExists(last'.user)
        /\ Role(last'.user) # "admin")
       => /\ last'.code \notin {200, 201}
          /\ users' = users
          /\ admins' = admins]_vars

\* C24: getServices is a pure read: it leaves every stored Service as it
\* was, and so never changes the consultant a service belongs to, whatever
\* the consultants embed.
C24_ListingLeavesServicesUnchanged ==
    [][last'.op = "getServices" => services' = services]_vars

C26_AggregateAfterInterleaving ==
    (/\ reviewing = {}
     /\ last.op \in {"createReview", "updateReview", "deleteReview"}
     /\ last.code \in {200, 201}) =>
        \A c \in DOMAIN consultants :
            /\ consultants[c].totalReviews = Cardinality(ReviewsOf(reviews, c))
            /\ consultants[c].averageRating.den # 0
            /\ consultants[c].averageRating.num * Cardinality(ReviewsOf(reviews, c))
                 = TotalRating(reviews, ReviewsOf(reviews, c))
                     * consultants[c].averageRating.den

\* C27: at most one Client profile per User in every reachable state, also
\* when login and createBooking requests of the user, each of which looks
\* the profile up and creates it when absent, interleave.
C27_OneClientProfilePerUser ==
    \A i, j \in 1..Len(clients) : clients[i] = clients[j] => i = j

\* C28: the cache holds and serves bodies of successful outcomes only: the
\* body of a 404 (the answer of GET /:id for an id without service, the
\* empty read of an item key) is never stored in the cache and never
\* answered as a cache hit.
C28_OnlySuccessfulBodiesCached ==
    /\ \A e \in cache : e.key # ListKey => e.body # <<>>
    /\ (last.op = "cache hit" /\ last.id # 0) => last.arg # <<>>

\* C29: overlapping calls of fetcher for a URL share one network request:
\* at most one request per URL is in flight at any time, every overlapping
\* caller receives the result of the request it joined, and once a request
\* has settled the pending entry of its URL is removed, so that the next
\* call issues a fresh request (or is answered from the static cache).
C29_FetcherSharesOneRequest ==
    [][/\ \A url \in URLs : Cardinality(InFlight(url))' <= 1
       /\ \A c \in Callers :
            delivered'[c] # delivered[c] /\ delivered'[c].id # 0
              => /\ [caller |-> c, url |-> delivered'[c].url, id |-> delivered'[c].id]
                       \in awaiting
                 /\ delivered'[c].outcome = fetches[delivered'[c].id].outcome
       /\ \A url \in URLs :
            PendingHas(url)' => fetches'[pendingRequests'[url]].status # "done"
       /\ \A w \in awaiting' \ awaiting :
            \/ InFlight(w.url) = {} /\ w.id = Len(fetches) + 1
            \/ fetches[w.id].status # "done"]_vars

\* C30: across mount, unmount, mount of AppProvider the initialisation body
\* (refreshData together with checkAuthAndLoadUser) is started at most
\* once.
C30_InitialisationStartedOnce == initStarts <= 1

====
